---- MODULE Spec2Model ----
(***************************************************************************)
(* Model of scripts/update_prices.py: the quarterly fetchers, the ratio    *)
(* computation, the two JSON serializers and the main() orchestration.     *)
(*                                                                         *)
(* Dates are integers YYYYMMDD.  A float is a record [k, n, d]:            *)
(*   k = "fin"  the finite value n/d,  k = "nan",  k = "inf".              *)
(* Prices are held in thousandths (d = 1000), so that rounding to two      *)
(* decimals changes a value.  A series (one-column DataFrame indexed by    *)
(* date) is a sequence of [date, price]; the empty DataFrame is << >>.     *)
(***************************************************************************)
EXTENDS Integers, Sequences, FiniteSets, TLC

VARIABLES pc, dirExists, files, btc_df, step, fetchLog, writeLog, dir0, files0,
          fx, rx

mainVars == <<pc, dirExists, files, btc_df, step, fetchLog, writeLog, dir0, files0>>
vars == <<pc, dirExists, files, btc_df, step, fetchLog, writeLog, dir0, files0, fx, rx>>

\* ------------------------------------------------------------------ bounds
MaxObs == 3
MaxRows == 2

\* ------------------------------------------------------- configuration
FRED_SERIES ==
  << [name |-> "housing_us_median", id |-> "MSPUS"],
     [name |-> "housing_northeast", id |-> "MSPNE"],
     [name |-> "housing_midwest",   id |-> "MSPMW"],
     [name |-> "housing_south",     id |-> "MSPS"],
     [name |-> "housing_west",      id |-> "MSPW"] >>

YFINANCE_TICKERS ==
  << [name |-> "btc_usd",  id |-> "BTC-USD"],
     [name |-> "gold_usd", id |-> "GC=F"],
     [name |-> "sp500",    id |-> "^GSPC"] >>

START_DATE == 20100101

\* ------------------------------------------------------------- floats
NaN == [k |-> "nan", n |-> 0, d |-> 1]
Inf == [k |-> "inf", n |-> 0, d |-> 1]
Fin(n, d) == [k |-> "fin", n |-> n, d |-> d]
Price(mills) == Fin(mills, 1000)

isna(x) == x.k = "nan"

\* ------------------------------------------------------------- helpers
Min(S) == CHOOSE x \in S : \A y \in S : x <= y
Max(S) == CHOOSE x \in S : \A y \in S : x >= y

RECURSIVE Ascending(_)
Ascending(S) == IF S = {} THEN << >> ELSE <<Min(S)>> \o Ascending(S \ {Min(S)})

\* the rows of s at the positions idx, in their order
SelectRows(s, idx) ==
  LET pos == Ascending(idx) IN [i \in DOMAIN pos |-> s[pos[i]]]

Dates(s) == {s[i].date : i \in DOMAIN s}

\* ------------------------------------------------------------- calendar
Year(dt) == dt \div 10000
Month(dt) == (dt \div 100) % 100
Day(dt) == dt % 100

MkDate(y, m, dd) == y * 10000 + m * 100 + dd

\* a plausible slip: the bin is labelled with the first day of the next quarter
QuarterEnd_NextStart(dt) ==
  LET qm == 3 * ((Month(dt) + 2) \div 3)
  IN  IF qm = 12 THEN MkDate(Year(dt) + 1, 1, 1) ELSE MkDate(Year(dt), qm + 1, 1)

\* resample("QE"): the label of the calendar quarter a date falls in
QuarterEnd(dt) ==
  LET qm == 3 * ((Month(dt) + 2) \div 3)
  IN  MkDate(Year(dt), qm, IF qm \in {3, 12} THEN 31 ELSE 30)

\* every quarter label from the first observation's bin to the last one's
Bins(s) ==
  IF s = << >> THEN {}
  ELSE LET labels == {QuarterEnd(s[i].date) : i \in DOMAIN s}
           years == Year(Min(Dates(s))) .. Year(Max(Dates(s)))
           cand == {QuarterEnd(MkDate(y, m, 1)) : y \in years, m \in {1, 4, 7, 10}}
       IN  {q \in cand : Min(labels) <= q /\ q <= Max(labels)}

\* a plausible slip: .first() instead of .last()
LastInBin_First(s, q) ==
  LET idx == {i \in DOMAIN s : QuarterEnd(s[i].date) = q /\ ~isna(s[i].price)}
  IN  IF idx = {} THEN NaN ELSE s[Min(idx)].price

\* Resampler.last(): the last non-missing value of the bin, NaN if none
LastInBin(s, q) ==
  LET idx == {i \in DOMAIN s : QuarterEnd(s[i].date) = q /\ ~isna(s[i].price)}
  IN  IF idx = {} THEN NaN ELSE s[Max(idx)].price

\* the time grouper first sorts the rows by date (stable) when they are not
\* in date order
RECURSIVE sort_by_date(_)
sort_by_date(s) ==
  IF s = << >> THEN << >>
  ELSE LET lo == Min(Dates(s))
           i == Min({j \in DOMAIN s : s[j].date = lo})
       IN  <<s[i]>> \o sort_by_date(SelectRows(s, DOMAIN s \ {i}))

resample_last(s) ==
  LET sorted == sort_by_date(s)
      bins == Ascending(Bins(sorted))
  IN  [i \in DOMAIN bins |-> [date |-> bins[i], price |-> LastInBin(sorted, bins[i])]]

dropna(s) == SelectRows(s, {i \in DOMAIN s : ~isna(s[i].price)})

\* df["Close"].resample("QE").last() followed by dropna()
Quarterly(s) == dropna(resample_last(s))

\* ------------------------------------------------------ fetch_yfinance_data
\* A provider answer of yf.download: kind "raise" (the call raises) or "ok"
\* with daily rows [date, price] in date order (price = the Close cell) and
\* multi = TRUE when the columns come as a (field, ticker) MultiIndex.
ColumnNames(resp) ==
  IF resp.multi THEN << <<"Close", "T">>, <<"Volume", "T">> >>
  ELSE << <<"Close">>, <<"Volume">> >>

\* df.columns.get_level_values(0)
get_level_values0(cols) == [i \in DOMAIN cols |-> <<cols[i][1]>>]

Returned(df) == [exc |-> FALSE, df |-> df]
Raised == [exc |-> TRUE, df |-> << >>]

fetch_yfinance_data(resp) ==
  IF resp.kind = "raise" THEN Raised
  ELSE IF resp.rows = << >> THEN Returned(<< >>)
  ELSE LET cols == IF resp.multi THEN get_level_values0(ColumnNames(resp))
                   ELSE ColumnNames(resp)
       IN  IF \E i \in DOMAIN cols : cols[i] = <<"Close">>
           THEN Returned(Quarterly(resp.rows))
           ELSE Raised

\* ---------------------------------------------------------- fetch_fred_data
\* A CSV answer: kind "raise" (network or parser error) or "ok" with header
\* cols and rows of cells.  A cell is [t, v, ymd]: t = "date" a date text
\* with fields ymd, t = "num" the number v (thousandths), t = "dot" the "."
\* placeholder.
DateCell(y, m, dd) == [t |-> "date", v |-> 0, ymd |-> <<y, m, dd>>]
NumCell(v) == [t |-> "num", v |-> v, ymd |-> <<0, 0, 0>>]
DotCell == [t |-> "dot", v |-> 0, ymd |-> <<0, 0, 0>>]

upper(c) ==
  CASE c = "date" -> "DATE"
    [] c = "observation_date" -> "OBSERVATION_DATE"
    [] OTHER -> c

\* position of the date column
date_col(cols) ==
  LET m == {i \in DOMAIN cols : upper(cols[i]) \in {"DATE", "OBSERVATION_DATE"}}
  IN  IF m # {} THEN Min(m) ELSE 1

\* position of the value column, 0 when df.columns[1] is out of range
value_col(cols, series_id) ==
  LET m == {i \in DOMAIN cols : cols[i] = series_id}
  IN  IF m # {} THEN Min(m) ELSE IF Len(cols) >= 2 THEN 2 ELSE 0

\* pd.to_datetime of one cell
to_datetime(c) == MkDate(c.ymd[1], c.ymd[2], c.ymd[3])

\* pd.to_numeric(errors="coerce") of one cell
to_numeric(c) == IF c.t = "num" THEN Price(c.v) ELSE NaN

\* the try block: TRUE when it raises
FredTryRaises(csv, series_id) ==
  \/ csv.kind = "raise"
  \/ value_col(csv.cols, series_id) = 0
  \/ value_col(csv.cols, series_id) = date_col(csv.cols)
  \/ \E i \in DOMAIN csv.rows : csv.rows[i][date_col(csv.cols)].t # "date"

fetch_fred_data(csv, series_id) ==
  IF FredTryRaises(csv, series_id) THEN Returned(<< >>)
  ELSE LET dc == date_col(csv.cols)
           vc == value_col(csv.cols, series_id)
           df == [i \in DOMAIN csv.rows |->
                    [date |-> to_datetime(csv.rows[i][dc]),
                     price |-> to_numeric(csv.rows[i][vc])]]
           filtered == SelectRows(df, {i \in DOMAIN df : df[i].date >= START_DATE})
       IN  Returned(Quarterly(filtered))

\* -------------------------------------------------------- compute_btc_ratio
\* float64 division of two prices of the same scale (prices are >= 0 here)
Div(a, b) ==
  IF isna(a) \/ isna(b) THEN NaN
  ELSE IF b.n = 0 THEN (IF a.n = 0 THEN NaN ELSE Inf)
  ELSE Fin(a.n, b.n)

At(s, dt) ==
  IF \E i \in DOMAIN s : s[i].date = dt
  THEN s[CHOOSE i \in DOMAIN s : s[i].date = dt].price
  ELSE NaN

\* pd.concat(axis=1, keys=["btc", "asset"]): the outer join on the date index
concat(btc, asset) ==
  LET idx == Ascending(Dates(btc) \cup Dates(asset))
  IN  [i \in DOMAIN idx |->
         [date |-> idx[i], btc |-> At(btc, idx[i]), asset |-> At(asset, idx[i])]]

dropna_rows(c) == SelectRows(c, {i \in DOMAIN c : ~isna(c[i].btc) /\ ~isna(c[i].asset)})

WithRatio(c) ==
  [i \in DOMAIN c |->
     [date |-> c[i].date, btc |-> c[i].btc, asset |-> c[i].asset,
      asset_per_btc |-> Div(c[i].asset, c[i].btc)]]

\* a plausible slip: the missing-value filter is left out (outer join)
compute_btc_ratio_outer(btc, asset) == WithRatio(concat(btc, asset))

\* a plausible slip: rows with a zero BTC price are filtered out
compute_btc_ratio_nozero(btc, asset) ==
  LET c == dropna_rows(concat(btc, asset))
  IN  WithRatio(SelectRows(c, {i \in DOMAIN c : c[i].btc.n # 0}))

compute_btc_ratio(btc, asset) == WithRatio(dropna_rows(concat(btc, asset)))

\* ------------------------------------------------------------- rounding
\* A rounded number is [k, ip, fd]: integer part and the decimal digits.
RECURSIVE Digits(_, _, _)
Digits(r, d, k) ==
  IF k = 0 THEN << >> ELSE <<(10 * r) \div d>> \o Digits((10 * r) % d, d, k - 1)

RECURSIVE Rem(_, _, _)
Rem(r, d, k) == IF k = 0 THEN r ELSE Rem((10 * r) % d, d, k - 1)

RECURSIVE Bump(_, _)
Bump(ip, fd) ==
  IF fd = << >> THEN [ip |-> ip + 1, fd |-> << >>]
  ELSE IF fd[Len(fd)] < 9
       THEN [ip |-> ip, fd |-> [fd EXCEPT ![Len(fd)] = @ + 1]]
       ELSE LET up == Bump(ip, SubSeq(fd, 1, Len(fd) - 1))
            IN  [ip |-> up.ip, fd |-> Append(up.fd, 0)]

\* a plausible slip: truncation instead of rounding
round_trunc(x, nd) ==
  IF x.k # "fin" THEN [k |-> x.k, ip |-> 0, fd |-> << >>]
  ELSE [k |-> "fin", ip |-> x.n \div x.d, fd |-> Digits(x.n % x.d, x.d, nd)]

\* round(x, nd) of a float64: nearest, ties to even
round(x, nd) ==
  IF x.k # "fin" THEN [k |-> x.k, ip |-> 0, fd |-> << >>]
  ELSE LET ip == x.n \div x.d
           fd == Digits(x.n % x.d, x.d, nd)
           r == Rem(x.n % x.d, x.d, nd)
           odd == IF nd = 0 THEN ip % 2 = 1 ELSE fd[nd] % 2 = 1
           up == 2 * r > x.d \/ (2 * r = x.d /\ odd)
           res == IF up THEN Bump(ip, fd) ELSE [ip |-> ip, fd |-> fd]
       IN  [k |-> "fin", ip |-> res.ip, fd |-> res.fd]

\* timestamp.strftime("%Y-%m-%d"): the year, month and day fields of the text
strftime(dt) == <<Year(dt), Month(dt), Day(dt)>>

\* ----------------------------------------------------------- serializers
\* the document save_to_json dumps
RatioDocument(df, asset_name, now) ==
  [asset |-> asset_name, updated_at |-> now,
   data |-> [i \in DOMAIN df |->
               [date |-> strftime(df[i].date),
                btc_price |-> round(df[i].btc, 2),
                asset_price |-> round(df[i].asset, 2),
                asset_per_btc |-> round(df[i].asset_per_btc, 10)]]]

\* the document save_btc_usd dumps
BtcUsdDocument(df, now) ==
  [asset |-> "USD in BTC", updated_at |-> now,
   data |-> [i \in DOMAIN df |->
               [date |-> strftime(df[i].date),
                btc_price_usd |-> df[i].price,
                btc_per_usd |-> Div(Price(1000), df[i].price)]]]

\* ------------------------------------------------------------ output files
\* files[p] is << >> when DATA_DIR/p.json does not exist, else <<document>>
OutputNames ==
  {YFINANCE_TICKERS[i].name : i \in DOMAIN YFINANCE_TICKERS}
    \cup {FRED_SERIES[i].name : i \in DOMAIN FRED_SERIES}

NoFiles == [p \in OutputNames |-> << >>]

\* documents left by an earlier run
StaleFiles == [p \in OutputNames |-> << [asset |-> p, updated_at |-> 0, data |-> << >>] >>]

\* ------------------------------------------------- provider answers (main)
YfRaise == [kind |-> "raise", multi |-> FALSE, rows |-> << >>]
YfOk(multi, rows) == [kind |-> "ok", multi |-> multi, rows |-> rows]

YfAnswers ==
  { YfRaise,
    YfOk(FALSE, << >>),
    YfOk(TRUE, << [date |-> 20100331, price |-> NaN] >>),
    YfOk(TRUE, << [date |-> 20100215, price |-> Price(5000000)],
                  [date |-> 20100331, price |-> Price(7000000)],
                  [date |-> 20100630, price |-> Price(0)] >>),
    YfOk(FALSE, << [date |-> 20100331, price |-> Price(1100500)],
                   [date |-> 20100929, price |-> Price(1300000)],
                   [date |-> 20100930, price |-> NaN] >>) }

CsvRaise == [kind |-> "raise", cols |-> << >>, rows |-> << >>]
CsvOk(cols, rows) == [kind |-> "ok", cols |-> cols, rows |-> rows]

FredAnswers(series_id) ==
  { CsvRaise,
    CsvOk(<<"observation_date", series_id>>, << >>),
    CsvOk(<<"observation_date", series_id>>,
          << <<DateCell(2010, 1, 1), DotCell>> >>),
    CsvOk(<<"observation_date", series_id>>,
          << <<DateCell(2009, 10, 1), NumCell(219000000)>>,
             <<DateCell(2010, 1, 1), NumCell(222900000)>>,
             <<DateCell(2010, 4, 1), DotCell>>,
             <<DateCell(2010, 7, 1), NumCell(224100000)>> >>) }

Prov(resp) ==
  IF resp.kind = "raise" THEN "raise" ELSE IF resp.rows = << >> THEN "norows" ELSE "rows"

Ret(r) == IF r.exc THEN "exception" ELSE IF r.df = << >> THEN "empty" ELSE "nonempty"

Logged(name, resp, r) == [name |-> name, prov |-> Prov(resp), ret |-> Ret(r)]

\* --------------------------------------------------------------- main()
FxIdle == [stage |-> "off", which |-> "yf", yf |-> YfRaise, csv |-> CsvRaise,
           out |-> Raised, again |-> << >>]
RxIdle == [stage |-> "off", btc |-> << >>, asset |-> << >>, combined |-> << >>,
           doc |-> RatioDocument(<< >>, "", 0)]

Init ==
  /\ pc = "fetch_btc"
  /\ dirExists \in BOOLEAN
  /\ files \in (IF dirExists THEN {NoFiles, StaleFiles} ELSE {NoFiles})
  /\ btc_df = << >>
  /\ step = 1
  /\ fetchLog = << >>
  /\ writeLog = << >>
  /\ dir0 = dirExists
  /\ files0 = files
  /\ fx = FxIdle
  /\ rx = RxIdle

\* line 167: btc_df = fetch_yfinance_data(...)
FetchBtc ==
  /\ pc = "fetch_btc"
  /\ \E resp \in YfAnswers :
       LET r == fetch_yfinance_data(resp)
       IN  /\ fetchLog' = Append(fetchLog, Logged("btc_usd", resp, r))
           /\ btc_df' = r.df
           /\ pc' = IF r.exc THEN "crashed" ELSE "check_btc"
  /\ UNCHANGED <<dirExists, files, step, writeLog, dir0, files0, fx, rx>>

\* a plausible slip: the abort check is missing
AbortCheck_Missing ==
  /\ pc = "check_btc"
  /\ pc' = "save_btc"
  /\ UNCHANGED <<dirExists, files, btc_df, step, fetchLog, writeLog, dir0, files0, fx, rx>>

\* lines 169-171: if btc_df.empty: return
AbortCheck ==
  /\ pc = "check_btc"
  /\ pc' = IF btc_df = << >> THEN "aborted" ELSE "save_btc"
  /\ UNCHANGED <<dirExists, files, btc_df, step, fetchLog, writeLog, dir0, files0, fx, rx>>

\* line 173: save_btc_usd(btc_df); open() raises when DATA_DIR is missing
save_btc_usd ==
  /\ pc = "save_btc"
  /\ IF dirExists
     THEN /\ files' = [files EXCEPT !["btc_usd"] = <<BtcUsdDocument(btc_df, 1)>>]
          /\ writeLog' = Append(writeLog, [path |-> "btc_usd", by |-> "save_btc_usd"])
          /\ pc' = "market"
     ELSE /\ pc' = "crashed"
          /\ UNCHANGED <<files, writeLog>>
  /\ UNCHANGED <<dirExists, btc_df, step, fetchLog, dir0, files0, fx, rx>>

\* lines 127-129 of save_to_json: mkdir(parents, exist_ok), open, dump
save_to_json(df, path, asset_name) ==
  /\ dirExists' = TRUE
  /\ files' = [files EXCEPT ![path] = <<RatioDocument(df, asset_name, 1)>>]
  /\ writeLog' = Append(writeLog, [path |-> path, by |-> asset_name])

\* a plausible slip: an empty fetch removes the series' file
Process_Unlink(name, r) ==
  IF r.exc
  THEN pc' = "crashed" /\ UNCHANGED <<dirExists, files, writeLog, step>>
  ELSE /\ pc' = pc
       /\ step' = step + 1
       /\ IF r.df # << >>
          THEN save_to_json(compute_btc_ratio(btc_df, r.df), name, name)
          ELSE /\ files' = [files EXCEPT ![name] = << >>]
               /\ UNCHANGED <<dirExists, writeLog>>

\* the body of both loops after the fetch: lines 181-183 and 189-191
Process(name, r) ==
  IF r.exc
  THEN pc' = "crashed" /\ UNCHANGED <<dirExists, files, writeLog, step>>
  ELSE /\ pc' = pc
       /\ step' = step + 1
       /\ IF r.df # << >>
          THEN save_to_json(compute_btc_ratio(btc_df, r.df), name, name)
          ELSE UNCHANGED <<dirExists, files, writeLog>>

\* lines 176-183: one iteration of the market loop
MarketIter ==
  /\ pc = "market"
  /\ step <= Len(YFINANCE_TICKERS)
  /\ LET item == YFINANCE_TICKERS[step]
     IN  IF item.name = "btc_usd"
         THEN /\ step' = step + 1
              /\ UNCHANGED <<pc, dirExists, files, fetchLog, writeLog>>
         ELSE \E resp \in YfAnswers :
                LET r == fetch_yfinance_data(resp)
                IN  /\ fetchLog' = Append(fetchLog, Logged(item.name, resp, r))
                    /\ Process(item.name, r)
  /\ UNCHANGED <<btc_df, dir0, files0, fx, rx>>

\* line 186: the market loop is exhausted
MarketDone ==
  /\ pc = "market"
  /\ step > Len(YFINANCE_TICKERS)
  /\ pc' = "housing"
  /\ step' = 1
  /\ UNCHANGED <<dirExists, files, btc_df, fetchLog, writeLog, dir0, files0, fx, rx>>

\* lines 187-191: one iteration of the housing loop
HousingIter ==
  /\ pc = "housing"
  /\ step <= Len(FRED_SERIES)
  /\ LET item == FRED_SERIES[step]
     IN  \E csv \in FredAnswers(item.id) :
           LET r == fetch_fred_data(csv, item.id)
           IN  /\ fetchLog' = Append(fetchLog, Logged(item.name, csv, r))
               /\ Process(item.name, r)
  /\ UNCHANGED <<btc_df, dir0, files0, fx, rx>>

\* lines 193-194: main returns
Finish ==
  /\ pc = "housing"
  /\ step > Len(FRED_SERIES)
  /\ pc' = "done"
  /\ UNCHANGED <<dirExists, files, btc_df, step, fetchLog, writeLog, dir0, files0, fx, rx>>

Next ==
  \/ FetchBtc
  \/ AbortCheck
  \/ save_btc_usd
  \/ MarketIter
  \/ MarketDone
  \/ HousingIter
  \/ Finish

Spec == Init /\ [][Next]_vars

\* ------------------------------------------------ the fetchers on their own
FetchDates == {20091001, 20100101, 20100215, 20100331, 20100401, 20101001}
FetchPrices == {NaN, Price(1000), Price(2500)}

\* rows with distinct dates, in any order, at most n of them
Observations(dates, n) ==
  LET cell == [date : dates, price : FetchPrices]
  IN  {s \in UNION {[1 .. k -> cell] : k \in 0 .. n} :
         \A i, j \in DOMAIN s : i # j => s[i].date # s[j].date}

\* the CSV row of an observation
CsvRow(o) ==
  << DateCell(Year(o.date), Month(o.date), Day(o.date)),
     IF isna(o.price) THEN DotCell ELSE NumCell(o.price.n) >>

CsvRows(s) == [i \in DOMAIN s |-> CsvRow(s[i])]

SampleRows ==
  << [date |-> 20100101, price |-> Price(1000)], [date |-> 20100401, price |-> NaN],
     [date |-> 20101001, price |-> Price(2500)] >>

YfInputs ==
  {YfRaise}
    \cup {YfOk(FALSE, rows) : rows \in Observations({dt \in FetchDates : dt >= START_DATE}, MaxObs)}
    \cup {YfOk(TRUE, SampleRows)}

FredInputs ==
  {CsvRaise}
    \cup {CsvOk(<<"observation_date", "MSPUS">>, CsvRows(rows)) :
            rows \in Observations(FetchDates, MaxObs)}
    \cup {CsvOk(cols, CsvRows(SampleRows)) :
            cols \in {<<"DATE", "MSPUS">>, <<"date", "VALUE">>, <<"d", "v">>}}
    \cup {CsvOk(cols, [i \in DOMAIN SampleRows |-> <<CsvRow(SampleRows[i])[2], CsvRow(SampleRows[i])[1]>>]) :
            cols \in {<<"MSPUS", "DATE">>, <<"v", "DATE">>}}
    \cup {CsvOk(<<"DATE">>, [i \in DOMAIN SampleRows |-> <<CsvRow(SampleRows[i])[1]>>])}
    \cup {CsvOk(<<"DATE", "MSPUS">>, << <<DotCell, NumCell(1000)>> >>)}

InitFetch ==
  /\ pc = "off"
  /\ dirExists = TRUE
  /\ files = NoFiles
  /\ btc_df = << >>
  /\ step = 1
  /\ fetchLog = << >>
  /\ writeLog = << >>
  /\ dir0 = TRUE
  /\ files0 = NoFiles
  /\ rx = RxIdle
  /\ \/ \E resp \in YfInputs : fx = [FxIdle EXCEPT !.stage = "input", !.which = "yf", !.yf = resp]
     \/ \E csv \in FredInputs : fx = [FxIdle EXCEPT !.stage = "input", !.which = "fred", !.csv = csv]

CallYfinance ==
  /\ fx.stage = "input"
  /\ fx.which = "yf"
  /\ fx' = [fx EXCEPT !.stage = "fetched", !.out = fetch_yfinance_data(fx.yf)]
  /\ UNCHANGED <<mainVars, rx>>

CallFred ==
  /\ fx.stage = "input"
  /\ fx.which = "fred"
  /\ fx' = [fx EXCEPT !.stage = "fetched", !.out = fetch_fred_data(fx.csv, "MSPUS")]
  /\ UNCHANGED <<mainVars, rx>>

\* the quarterly resampling applied to a fetcher's result
ResampleAgain ==
  /\ fx.stage = "fetched"
  /\ ~fx.out.exc
  /\ fx' = [fx EXCEPT !.stage = "resampled", !.again = Quarterly(fx.out.df)]
  /\ UNCHANGED <<mainVars, rx>>

NextFetch ==
  \/ CallYfinance
  \/ CallFred
  \/ ResampleAgain

SpecFetch == InitFetch /\ [][NextFetch]_vars

\* ------------------------------------- ratio and ratio document on their own
RatioDates == {20210331, 20210630, 20210930}
BtcPrices == {0, 35000000, 50000000}
AssetPrices == {0, 12347, 1770000, 1800000}

\* the non-empty quarterly series a fetcher can return: ascending quarter
\* ends, no missing price
QuarterlySeries(prices, n) ==
  LET cell == [date : RatioDates, price : {Price(v) : v \in prices}]
  IN  {s \in UNION {[1 .. k -> cell] : k \in 1 .. n} :
         \A i, j \in DOMAIN s : i < j => s[i].date < s[j].date}

InitRatio ==
  /\ pc = "off"
  /\ dirExists = TRUE
  /\ files = NoFiles
  /\ btc_df = << >>
  /\ step = 1
  /\ fetchLog = << >>
  /\ writeLog = << >>
  /\ dir0 = TRUE
  /\ files0 = NoFiles
  /\ fx = FxIdle
  /\ \E b \in QuarterlySeries(BtcPrices, MaxRows), a \in QuarterlySeries(AssetPrices, MaxRows) :
       rx = [RxIdle EXCEPT !.stage = "input", !.btc = b, !.asset = a]

ComputeRatio ==
  /\ rx.stage = "input"
  /\ rx' = [rx EXCEPT !.stage = "computed", !.combined = compute_btc_ratio(rx.btc, rx.asset)]
  /\ UNCHANGED <<mainVars, fx>>

SaveRatio ==
  /\ rx.stage = "computed"
  /\ rx' = [rx EXCEPT !.stage = "saved", !.doc = RatioDocument(rx.combined, "gold_usd", 1)]
  /\ UNCHANGED <<mainVars, fx>>

NextRatio ==
  \/ ComputeRatio
  \/ SaveRatio

SpecRatio == InitRatio /\ [][NextRatio]_vars

\* =================================================================== claims
Written == {writeLog[i].path : i \in DOMAIN writeLog}
NoFetchRaised == \A i \in DOMAIN fetchLog : fetchLog[i].ret # "exception"
BtcNonEmpty == fetchLog # << >> /\ fetchLog[1].ret = "nonempty"

\* C1: when the BTC fetch returns an empty series the run aborts at the check:
\* nothing is written, no file changes and no further series is fetched.
C1_AbortOnEmptyBtc ==
  (fetchLog # << >> /\ fetchLog[1].ret = "empty") =>
     /\ pc \in {"check_btc", "aborted"}
     /\ Len(fetchLog) = 1
     /\ writeLog = << >>
     /\ files = files0

C1_Witness ==
  /\ pc = "aborted"
  /\ fetchLog[1].name = "btc_usd"
  /\ fetchLog[1].ret = "empty"

\* C2: every fetch whose provider call raises or returns no rows gives back
\* an empty series, and no exception reaches main().
C2_FetchDegradesToEmpty ==
  /\ \A i \in DOMAIN fetchLog :
       fetchLog[i].prov \in {"raise", "norows"} => fetchLog[i].ret = "empty"
  /\ (\E i \in DOMAIN fetchLog : fetchLog[i].prov = "raise") => pc # "crashed"

\* C3: starting without the output directory, a run with a non-empty BTC
\* series writes btc_usd.json and does not fail for the missing directory.
C3_SerializersCreateParents ==
  (~dir0 /\ BtcNonEmpty /\ NoFetchRaised) =>
     /\ pc # "crashed"
     /\ pc \in {"market", "housing", "done"} => files["btc_usd"] # << >>

\* C4: with a non-empty BTC series and every fetch empty or non-empty, the
\* run writes btc_usd.json first, fetches the market tickers and then the
\* housing series once each in configuration order, writes a ratio file
\* exactly for the non-empty fetches, and terminates normally.
FetchOrder ==
  <<"btc_usd">>
    \o [i \in 1 .. Len(YFINANCE_TICKERS) - 1 |-> YFINANCE_TICKERS[i + 1].name]
    \o [i \in DOMAIN FRED_SERIES |-> FRED_SERIES[i].name]

NonEmptyFetches == SelectRows(fetchLog, {i \in DOMAIN fetchLog : i > 1 /\ fetchLog[i].ret = "nonempty"})

C4_RunInFixedOrder ==
  (BtcNonEmpty /\ NoFetchRaised) =>
     /\ pc \in {"check_btc", "save_btc", "market", "housing", "done"}
     /\ Len(fetchLog) <= Len(FetchOrder)
     /\ \A i \in DOMAIN fetchLog : fetchLog[i].name = FetchOrder[i]
     /\ pc \in {"check_btc", "save_btc"} => writeLog = << >> /\ Len(fetchLog) = 1
     /\ pc \in {"market", "housing", "done"} =>
          /\ writeLog # << >>
          /\ writeLog[1].path = "btc_usd"
          /\ Len(writeLog) = 1 + Len(NonEmptyFetches)
          /\ \A i \in DOMAIN NonEmptyFetches : writeLog[i + 1].path = NonEmptyFetches[i].name
     /\ pc = "done" => Len(fetchLog) = Len(FetchOrder)

\* C10: in one run each path is written at most once, btc_usd.json only by
\* save_btc_usd and <key>.json only by the series of that key; a path that is
\* not written keeps the content it had before the run, which is the case
\* for every series whose fetch was empty and for every path of an aborted run.
C10_WritesAndFrame ==
  /\ \A i, j \in DOMAIN writeLog : i # j => writeLog[i].path # writeLog[j].path
  /\ \A i \in DOMAIN writeLog :
       IF writeLog[i].path = "btc_usd" THEN writeLog[i].by = "save_btc_usd"
       ELSE writeLog[i].by = writeLog[i].path
  /\ \A i \in DOMAIN writeLog :
       \/ writeLog[i].by = "save_btc_usd"
       \/ \E j \in DOMAIN fetchLog : j > 1 /\ fetchLog[j].name = writeLog[i].by
  /\ \A i \in DOMAIN fetchLog :
       fetchLog[i].ret = "empty" => files[fetchLog[i].name] = files0[fetchLog[i].name]
  /\ \A p \in OutputNames \ Written : files[p] = files0[p]
  /\ pc = "aborted" => files = files0

C10_Witness ==
  /\ pc = "done"
  /\ files0 = StaleFiles
  /\ \E i \in DOMAIN fetchLog :
       fetchLog[i].ret = "empty" /\ files[fetchLog[i].name] = StaleFiles[fetchLog[i].name]
  /\ \E i \in DOMAIN fetchLog :
       fetchLog[i].ret = "nonempty" /\ fetchLog[i].name \in Written \ {"btc_usd"}

\* ------------------------------------------------------- ratio claims
Common == Dates(rx.btc) \cap Dates(rx.asset)
PriceOn(s, dt) == s[CHOOSE i \in DOMAIN s : s[i].date = dt].price

\* C5: the ratio frame holds exactly the dates present in both inputs, one
\* row per date in ascending order, each with the two inputs' prices of that
\* date; it is never longer than either input.
C5_InnerJoin ==
  rx.stage \in {"computed", "saved"} =>
     /\ Dates(rx.combined) = Common
     /\ Len(rx.combined) = Cardinality(Common)
     /\ Len(rx.combined) <= Len(rx.btc) /\ Len(rx.combined) <= Len(rx.asset)
     /\ \A i, j \in DOMAIN rx.combined : i < j => rx.combined[i].date < rx.combined[j].date
     /\ \A i \in DOMAIN rx.combined :
          /\ rx.combined[i].btc = PriceOn(rx.btc, rx.combined[i].date)
          /\ rx.combined[i].asset = PriceOn(rx.asset, rx.combined[i].date)

C5_Witness ==
  /\ rx.stage = "computed"
  /\ Len(rx.combined) = 1
  /\ Dates(rx.btc) \ Common # {}
  /\ Dates(rx.asset) \ Common # {}

\* |n/d - x| <= half a unit of the last of x's digits, by multiplying back
RECURSIVE Residual(_, _, _)
Residual(e, d, fd) ==
  IF fd = << >> THEN e
  ELSE IF e > 2 * d \/ e < -(2 * d) THEN e
  ELSE Residual(10 * e - d * Head(fd), d, Tail(fd))

IsNearest(x, n, d, nd) ==
  /\ x.k = "fin"
  /\ Len(x.fd) = nd
  /\ \A i \in DOMAIN x.fd : x.fd[i] \in 0 .. 9
  /\ LET e == Residual(n - d * x.ip, d, x.fd)
     IN  2 * e <= d /\ -(2 * e) <= d

ScenarioBtc ==
  << [date |-> 20210331, price |-> Price(50000000)],
     [date |-> 20210630, price |-> Price(35000000)] >>

ScenarioGold ==
  << [date |-> 20210331, price |-> Price(1800000)],
     [date |-> 20210630, price |-> Price(1770000)] >>

\* C6: every record of the ratio document carries the row's prices rounded to
\* 2 decimals and asset/btc rounded to 10 decimals; the gold scenario gives
\* two records with asset_per_btc 0.036 and 0.0505714286.
C6_Rounding ==
  rx.stage = "saved" =>
     /\ Len(rx.doc.data) = Len(rx.combined)
     /\ \A i \in DOMAIN rx.doc.data :
          /\ IsNearest(rx.doc.data[i].btc_price, rx.combined[i].btc.n, 1000, 2)
          /\ IsNearest(rx.doc.data[i].asset_price, rx.combined[i].asset.n, 1000, 2)
          /\ rx.combined[i].btc.n # 0 =>
               IsNearest(rx.doc.data[i].asset_per_btc,
                         rx.combined[i].asset.n, rx.combined[i].btc.n, 10)
     /\ (rx.btc = ScenarioBtc /\ rx.asset = ScenarioGold) =>
          /\ Len(rx.doc.data) = 2
          /\ rx.doc.data[1].date = <<2021, 3, 31>>
          /\ rx.doc.data[1].asset_per_btc = [k |-> "fin", ip |-> 0, fd |-> <<0, 3, 6, 0, 0, 0, 0, 0, 0, 0>>]
          /\ rx.doc.data[2].date = <<2021, 6, 30>>
          /\ rx.doc.data[2].asset_per_btc = [k |-> "fin", ip |-> 0, fd |-> <<0, 5, 0, 5, 7, 1, 4, 2, 8, 6>>]

C6_Witness ==
  /\ rx.stage = "saved"
  /\ rx.btc = ScenarioBtc
  /\ rx.asset = ScenarioGold
  /\ Len(rx.doc.data) = 2

\* C9: a common date whose BTC price is 0 keeps its row and its record, whose
\* asset_per_btc is infinity, or NaN when the asset price is 0 too; the
\* document has one record per common date.
C9_ZeroBtcKept ==
  rx.stage = "saved" =>
     /\ Len(rx.doc.data) = Cardinality(Common)
     /\ \A dt \in Common :
          PriceOn(rx.btc, dt).n = 0 =>
            \E i \in DOMAIN rx.doc.data :
              /\ rx.combined[i].date = dt
              /\ rx.doc.data[i].date = <<Year(dt), Month(dt), Day(dt)>>
              /\ rx.doc.data[i].asset_per_btc.k =
                   (IF PriceOn(rx.asset, dt).n = 0 THEN "nan" ELSE "inf")

C9_Witness ==
  /\ rx.stage = "saved"
  /\ \E i, j \in DOMAIN rx.doc.data :
       /\ rx.combined[i].btc.n = 0 /\ rx.doc.data[i].asset_per_btc.k = "inf"
       /\ rx.combined[j].btc.n = 0 /\ rx.doc.data[j].asset_per_btc.k = "nan"

\* ------------------------------------------------------- fetcher claims
\* C7: resampling a fetcher's quarterly series again returns the same series.
C7_ResampleIdempotent ==
  fx.stage = "resampled" => fx.again = fx.out.df

C7_Witness ==
  /\ fx.stage = "resampled"
  /\ Len(fx.out.df) = 2
  /\ fx.out.df[1].date = 20100331
  /\ fx.out.df[2].date = 20101231
  /\ fx.again = fx.out.df

\* the observations handed to the resampling, before the start-date filter
Observed ==
  IF fx.which = "yf" THEN {fx.yf.rows[i] : i \in DOMAIN fx.yf.rows}
  ELSE IF FredTryRaises(fx.csv, "MSPUS") THEN {}
  ELSE {[date |-> to_datetime(fx.csv.rows[i][date_col(fx.csv.cols)]),
         price |-> to_numeric(fx.csv.rows[i][value_col(fx.csv.cols, "MSPUS")])] :
          i \in DOMAIN fx.csv.rows}

IsQuarterEndDate(dt) ==
  <<Month(dt), Day(dt)>> \in {<<3, 31>>, <<6, 30>>, <<9, 30>>, <<12, 31>>}

SameQuarter(a, b) ==
  /\ Year(a) = Year(b)
  /\ \E q \in {{1, 2, 3}, {4, 5, 6}, {7, 8, 9}, {10, 11, 12}} : Month(a) \in q /\ Month(b) \in q

\* the fetched series df is the quarter-end-last series of the observations obs
QuarterEndLastOf(df, obs) ==
  LET valid == {o \in obs : ~isna(o.price)}
  IN  /\ \A i, j \in DOMAIN df : i < j => df[i].date < df[j].date
      /\ \A i \in DOMAIN df : IsQuarterEndDate(df[i].date) /\ ~isna(df[i].price)
      /\ \A o \in valid : \E i \in DOMAIN df : SameQuarter(o.date, df[i].date)
      /\ \A i \in DOMAIN df :
           \E o \in valid :
             /\ SameQuarter(o.date, df[i].date)
             /\ o.price = df[i].price
             /\ \A o2 \in valid : SameQuarter(o2.date, df[i].date) => o2.date <= o.date

\* C8 as stated: one entry per calendar quarter holding a non-missing
\* observation, dated at the quarter's end, increasing, priced with the
\* quarter's last non-missing observation; all-missing quarters are absent.
C8_Original ==
  (fx.stage \in {"fetched", "resampled"} /\ fx.out.df # << >>) =>
     QuarterEndLastOf(fx.out.df, Observed)

\* C8 amended: the same, over the observations dated on or after START_DATE.
C8_QuarterEndLast ==
  (fx.stage \in {"fetched", "resampled"} /\ fx.out.df # << >>) =>
     QuarterEndLastOf(fx.out.df, {o \in Observed : o.date >= START_DATE})

C8_Witness ==
  /\ fx.stage = "fetched"
  /\ fx.which = "fred"
  /\ Len(fx.out.df) = 1
  /\ \E o \in Observed : o.date < START_DATE /\ ~isna(o.price)
  /\ \E o \in Observed : o.date >= START_DATE /\ isna(o.price) /\ ~SameQuarter(o.date, fx.out.df[1].date)
====
